---- MODULE Spec2Model ----
(***************************************************************************)
(* syo-ryo-uma (src/index.js): ASCII art of a cucumber and an eggplant     *)
(* scrolled across the terminal.                                           *)
(*                                                                         *)
(* A character is a one-character string, a line a sequence of characters, *)
(* an art buffer a sequence of lines.  A write to process.stdout is a      *)
(* record [op, arg]: op names the control sequence or the kind of text,    *)
(* arg holds the text as a sequence of lines (empty for a control          *)
(* sequence, one line for console.log, term.height lines for a frame).     *)
(*                                                                         *)
(* Three specifications:                                                   *)
(*   Spec       the process from the dispatch in main() to its exit;       *)
(*   SpecFrame  renderFrame applied to bounded art, offset and viewport;   *)
(*   SpecLoad   loadArt applied to bounded file contents.                  *)
(***************************************************************************)
EXTENDS Integers, Sequences, FiniteSets, TLC

VARIABLES
    \* ---- process.argv as parsed by main() (index.js:317-333) ----
    character,      \* "cucumber" | "eggplant" | "default"
    stayMode,       \* args.includes('--stay')
    reverseMode,    \* args.includes('--reverse')
    endlessFlag,    \* '--endless' is on the command line (README.md:51)
    speed,          \* milliseconds per tick
    \* ---- the four art buffers loaded at start (index.js:43-46) ----
    cucumber, cucumberReverse, eggplant, eggplantReverse,
    \* ---- the terminal ----
    columns,        \* process.stdout.columns, now
    rows,           \* process.stdout.rows, now
    resizes,        \* how many times the terminal was resized
    out,            \* every write to stdout so far, in order
    \* ---- the running program ----
    pc,             \* position of main()
    term,           \* `const term` of animate / animateBoth
    x,              \* loop variable x of the scroll loops
    fig,            \* 1: first (or only) figure, 2: second figure of animateBoth
    rendered,       \* the xPosition of every renderFrame call, in order
    timers,         \* the delay of every setTimeout call, in order
    exitCode,       \* process exit status, -1 while running
    exitedBy,       \* "none" | "return" | "sigint" | "catch"
    \* ---- renderFrame on its own (SpecFrame) ----
    art, xPosition, frameBuffer, framePc,
    \* ---- loadArt on its own (SpecLoad) ----
    content, readable, loaded, loadPc

procVars  == <<character, stayMode, reverseMode, endlessFlag, speed,
               cucumber, cucumberReverse, eggplant, eggplantReverse,
               resizes, out, pc, term, x, fig, rendered, timers,
               exitCode, exitedBy>>
sizeVars  == <<columns, rows>>
frameVars == <<art, xPosition, frameBuffer, framePc>>
loadVars  == <<content, readable, loaded, loadPc>>
vars      == <<procVars, sizeVars, frameVars, loadVars>>

(***************************************************************************)
(* Bounds of the model.                                                    *)
(***************************************************************************)
MaxWidth      == 4    \* terminal widths 1..MaxWidth
MaxHeight     == 3    \* terminal heights 1..MaxHeight
MaxResizes    == 1    \* resizes of the terminal during one run
MaxArtRows    == 3    \* rows of an art buffer given to renderFrame
MaxRowLen     == 3    \* length of a row of such an art buffer
MaxContentLen == 4    \* characters of an art file given to loadArt

(***************************************************************************)
(* CONFIG (index.js:12-21).                                                *)
(***************************************************************************)
DEFAULT_SPEED           == 30
ANIMATION_STEP          == 2
PAUSE_MULTIPLIER        == 3
DEFAULT_TERMINAL_WIDTH  == 80
DEFAULT_TERMINAL_HEIGHT == 24
TERMINAL_INDEX_OFFSET   == 1

SPACE == " "
NL    == "\n"

Max(a, b) == IF a >= b THEN a ELSE b
Min(a, b) == IF a <= b THEN a ELSE b
Abs(n)    == IF n < 0 THEN -n ELSE n

(***************************************************************************)
(* JavaScript string primitives used by the program.                       *)
(***************************************************************************)
\* c.repeat(n), n >= 0
Repeat(c, n) == [i \in 1..n |-> c]

\* s.slice(start, end): a negative index counts from the end, both indexes
\* are clamped to [0, s.length], an empty range gives ''.
SliceIndex(k, len) == IF k < 0 THEN Max(len + k, 0) ELSE Min(k, len)

Slice(s, start, end) ==
    LET lo == SliceIndex(start, Len(s))
        hi == SliceIndex(end, Len(s))
    IN  IF hi <= lo THEN <<>> ELSE SubSeq(s, lo + 1, hi)

\* s.padEnd(n, ' ')
PadEnd(s, n) == IF Len(s) >= n THEN s ELSE s \o Repeat(SPACE, n - Len(s))

\* line.trim().length > 0
IsWhite(c)    == c = SPACE \/ c = NL
TrimIsEmpty(line) == \A i \in 1..Len(line) : IsWhite(line[i])

(***************************************************************************)
(* getTerminalSize (index.js:52-57): `columns || 80`, `rows || 24`.        *)
(***************************************************************************)
getTerminalSize ==
    [width  |-> IF columns = 0 THEN DEFAULT_TERMINAL_WIDTH ELSE columns,
     height |-> IF rows = 0 THEN DEFAULT_TERMINAL_HEIGHT ELSE rows]

(***************************************************************************)
(* renderFrame (index.js:108-159).  The frame is returned as the sequence  *)
(* of the lineContent of the screen lines 1..term.height: line screenY is  *)
(* written after the cursor is moved to (screenY, 1) and is followed by    *)
(* clear-to-end-of-line.                                                   *)
(***************************************************************************)
\* verticalCenter without the clamp at 0
verticalCenterOf_NoClamp(a, t) == (t.height - Len(a)) \div 2

verticalCenterOf(a, t) == Max(0, (t.height - Len(a)) \div 2)

\* lineContent without the padding or the final cut to term.width
lineContentOf_NoPad(artLine, xPos, t) ==
    IF xPos >= t.width
      THEN Repeat(SPACE, t.width)
    ELSE IF xPos > 0
      THEN Repeat(SPACE, xPos) \o artLine
    ELSE Slice(artLine, Abs(xPos), Abs(xPos) + t.width)

\* index.js:131-147
lineContentOf(artLine, xPos, t) ==
    LET raw ==
          IF xPos >= t.width
            THEN Repeat(SPACE, t.width)
          ELSE IF xPos > 0
            THEN LET visibleColumns == t.width - xPos
                     visibleArt     == Slice(artLine, 0, visibleColumns)
                 IN  PadEnd(Repeat(SPACE, xPos) \o visibleArt, t.width)
          ELSE LET startColumn == Abs(xPos)
                   visibleArt  == Slice(artLine, startColumn, startColumn + t.width)
               IN  PadEnd(visibleArt, t.width)
    IN  Slice(raw, 0, t.width)

renderFrameWith(a, xPos, t) ==
    LET verticalCenter == verticalCenterOf(a, t)
    IN  [i \in 1..(t.height - TERMINAL_INDEX_OFFSET + 1) |->
           LET screenY    == i + TERMINAL_INDEX_OFFSET - 1
               artLineIdx == screenY - verticalCenter - TERMINAL_INDEX_OFFSET
           IN  IF artLineIdx >= 0 /\ artLineIdx < Len(a)
                 THEN lineContentOf(a[artLineIdx + 1], xPos, t)
                 ELSE Repeat(SPACE, t.width)]

\* renderFrame reads the terminal size itself (index.js:109)
renderFrame(a, xPos) == renderFrameWith(a, xPos, getTerminalSize)

(***************************************************************************)
(* loadArt (index.js:28-40).                                               *)
(***************************************************************************)
\* content.split('\n')
RECURSIVE Split(_)
Split(s) ==
    IF \A i \in 1..Len(s) : s[i] # NL
      THEN <<s>>
      ELSE LET k == CHOOSE i \in 1..Len(s) :
                       s[i] = NL /\ \A j \in 1..(i - 1) : s[j] # NL
           IN  <<SubSeq(s, 1, k - 1)>> \o Split(SubSeq(s, k + 1, Len(s)))

\* index.js:32-35, the predicate given to filter (idx is 0-based)
keepLine(line, idx, arr) == idx < Len(arr) - 1 \/ ~TrimIsEmpty(line)

\* arr.filter(keepLine), from the 1-based position i on
RECURSIVE FilterFrom(_, _)
FilterFrom(arr, i) ==
    IF i > Len(arr) THEN <<>>
    ELSE (IF keepLine(arr[i], i - 1, arr) THEN <<arr[i]>> ELSE <<>>)
         \o FilterFrom(arr, i + 1)

loadArt(fileContent) == FilterFrom(Split(fileContent), 1)

(***************************************************************************)
(* Values the variables of a specification that is not running are held    *)
(* at.                                                                     *)
(***************************************************************************)
IdleProc ==
    /\ character = "default" /\ stayMode = FALSE /\ reverseMode = FALSE
    /\ endlessFlag = FALSE /\ speed = DEFAULT_SPEED
    /\ cucumber = <<>> /\ cucumberReverse = <<>>
    /\ eggplant = <<>> /\ eggplantReverse = <<>>
    /\ resizes = 0 /\ out = <<>> /\ pc = "idle"
    /\ term = [width |-> 0, height |-> 0] /\ x = 0 /\ fig = 1
    /\ rendered = <<>> /\ timers = <<>>
    /\ exitCode = -1 /\ exitedBy = "none"

IdleFrame ==
    art = <<>> /\ xPosition = 0 /\ frameBuffer = <<>> /\ framePc = "idle"

IdleLoad ==
    content = <<>> /\ readable = TRUE /\ loaded = <<>> /\ loadPc = "idle"

(***************************************************************************)
(* SpecFrame: renderFrame on every art buffer of at most MaxArtRows rows   *)
(* of at most MaxRowLen characters, every viewport of 1..MaxWidth by       *)
(* 1..MaxHeight and every offset from left of the art's disappearance to   *)
(* right of the viewport.  renderFrame never inspects a character, so the  *)
(* art buffers carry a different letter in every cell: a cell of the frame *)
(* then tells which cell of the art it was copied from.                    *)
(***************************************************************************)
Alphabet ==
    <<"a", "b", "c", "d", "e", "f", "g", "h", "i", "j", "k", "l", "m",
      "n", "o", "p", "q", "r", "s", "t", "u", "v", "w", "x", "y", "z">>

Glyph(i, j) == Alphabet[(i - 1) * (MaxRowLen + 2) + j]

ArtOfLengths(lens) ==
    [i \in 1..Len(lens) |-> [j \in 1..lens[i] |-> Glyph(i, j)]]

FrameArts ==
    { ArtOfLengths(lens) :
        lens \in UNION { [1..k -> 0..MaxRowLen] : k \in 0..MaxArtRows } }

FrameOffsets == (-(MaxRowLen + 1))..(MaxWidth + 1)

InitFrame ==
    /\ IdleProc /\ IdleLoad
    /\ columns \in 1..MaxWidth
    /\ rows \in 1..MaxHeight
    /\ art \in FrameArts
    /\ xPosition \in FrameOffsets
    /\ frameBuffer = <<>>
    /\ framePc = "call"

\* one call renderFrame(art, xPosition) and its process.stdout.write
RenderFrameCall ==
    /\ framePc = "call"
    /\ frameBuffer' = renderFrame(art, xPosition)
    /\ framePc' = "written"
    /\ UNCHANGED <<art, xPosition, procVars, sizeVars, loadVars>>

NextFrame == RenderFrameCall

SpecFrame == InitFrame /\ [][NextFrame]_vars

(***************************************************************************)
(* SpecLoad: loadArt on every file content of at most MaxContentLen        *)
(* characters over a letter, a space and a newline.                        *)
(***************************************************************************)
FileChars == {"#", SPACE, NL}

FileContents == UNION { [1..n -> FileChars] : n \in 0..MaxContentLen }

InitLoad ==
    /\ IdleProc /\ IdleFrame
    /\ columns = 0 /\ rows = 0
    /\ content \in FileContents
    /\ readable \in BOOLEAN
    /\ loaded = <<>>
    /\ loadPc = "call"

\* loadArt(filename): readFileSync succeeds and the lines are returned, or
\* it throws and the process exits with status 1 (index.js:36-39)
LoadArtCall ==
    /\ loadPc = "call"
    /\ IF readable
         THEN loaded' = loadArt(content) /\ loadPc' = "returned"
         ELSE loaded' = loaded /\ loadPc' = "exit1"
    /\ UNCHANGED <<content, readable, procVars, sizeVars, frameVars>>

NextLoad == LoadArtCall

SpecLoad == InitLoad /\ [][NextLoad]_vars

(***************************************************************************)
(* Spec: the process, from the dispatch in main() (index.js:345) on.  The  *)
(* art is loaded, the arguments are parsed and the SIGINT handler is       *)
(* registered.  JavaScript runs to completion between two awaits: a timer  *)
(* or a signal handler runs only while main() is suspended in an await, or *)
(* after main() has returned and before the process ends.                  *)
(***************************************************************************)
Tok(op)       == [op |-> op, arg |-> <<>>]
LineTok(line) == [op |-> "line", arg |-> <<line>>]
FrameTok(f)   == [op |-> "frame", arg |-> f]

enterAlternateBuffer == Tok("enterAlt")      \* ESC[?1049h  index.js:62-64
exitAlternateBuffer  == Tok("exitAlt")       \* ESC[?1049l  index.js:69-71
hideCursor           == Tok("hideCursor")    \* ESC[?25l    index.js:76-78
showCursor           == Tok("showCursor")    \* ESC[?25h    index.js:83-85
clearScreen          == Tok("clearScreen")   \* ESC[2J ESC[H index.js:90-92

\* Two sets of art files.  No art file is empty.
ArtSets ==
    { [cucumber        |-> << <<"c", "u">> >>,
       cucumberReverse |-> << <<"u", "c", "r">> >>,
       eggplant        |-> << <<"e", "g", "g">>, <<>>, <<"p">> >>,
       eggplantReverse |-> << <<"p", SPACE>>, <<"g", "e">> >>],
      [cucumber        |-> << <<"c">>, <<SPACE, "u">>, <<"k">>, <<"e">> >>,
       cucumberReverse |-> << <<"k", "c">> >>,
       eggplant        |-> << <<"e", "g">> >>,
       eggplantReverse |-> << <<"g">>, <<"e", "g", "g">> >>] }

Speeds == {DEFAULT_SPEED, 10}

\* Math.max(...art.map(line => line.length)), art not empty
ArtWidth(a) ==
    CHOOSE w \in { Len(a[i]) : i \in 1..Len(a) } :
        \A i \in 1..Len(a) : Len(a[i]) <= w

\* the art selected by the direction (index.js:212-213, 347-357)
cucumberArt == IF reverseMode THEN cucumberReverse ELSE cucumber
eggplantArt == IF reverseMode THEN eggplantReverse ELSE eggplant

\* the art buffer the running scroll loop renders
CurrentArt ==
    IF character = "cucumber" THEN cucumberArt
    ELSE IF character = "eggplant" THEN eggplantArt
    ELSE IF fig = 1 THEN cucumberArt ELSE eggplantArt

\* the initial value of x of a scroll loop over art a (index.js:181, 187)
loopStart(a, t) == IF reverseMode THEN -ArtWidth(a) ELSE t.width

\* the loop condition on a wrongly strict comparison
loopContinues_Strict(a, t, pos) ==
    IF reverseMode THEN pos < t.width ELSE pos > -ArtWidth(a)

\* the condition of a scroll loop (index.js:181, 187)
loopContinues(a, t, pos) ==
    IF reverseMode THEN pos <= t.width ELSE pos >= -ArtWidth(a)

\* x += ANIMATION_STEP / x -= ANIMATION_STEP
loopAdvance(pos) ==
    IF reverseMode THEN pos + ANIMATION_STEP ELSE pos - ANIMATION_STEP

Init ==
    /\ IdleFrame /\ IdleLoad
    /\ character \in {"cucumber", "eggplant", "default"}
    /\ stayMode \in BOOLEAN
    /\ reverseMode \in BOOLEAN
    /\ endlessFlag \in BOOLEAN
    /\ speed \in Speeds
    /\ \E s \in ArtSets :
         /\ cucumber = s.cucumber
         /\ cucumberReverse = s.cucumberReverse
         /\ eggplant = s.eggplant
         /\ eggplantReverse = s.eggplantReverse
    /\ columns \in 1..MaxWidth
    /\ rows \in 1..MaxHeight
    /\ resizes = 0
    /\ out = <<>>
    /\ pc = "main"
    /\ term = [width |-> 0, height |-> 0]
    /\ x = 0
    /\ fig = 1
    /\ rendered = <<>>
    /\ timers = <<>>
    /\ exitCode = -1
    /\ exitedBy = "none"

argVars == <<character, stayMode, reverseMode, endlessFlag, speed,
             cucumber, cucumberReverse, eggplant, eggplantReverse>>
idleVars == <<frameVars, loadVars>>

\* animate(art, speed, false, reverseMode), to its first loop test
\* (index.js:170-181/187); keepBuffer is false in every call
AnimateEnter ==
    /\ pc = "main" /\ ~stayMode /\ character \in {"cucumber", "eggplant"}
    /\ term' = getTerminalSize
    /\ out' = out \o <<enterAlternateBuffer, hideCursor, clearScreen>>
    /\ x' = loopStart(CurrentArt, getTerminalSize)
    /\ pc' = "loop"
    /\ UNCHANGED <<argVars, sizeVars, resizes, fig, rendered, timers,
                   exitCode, exitedBy, idleVars>>

\* animateBoth(speed, reverseMode), to its first loop test (index.js:207-225)
AnimateBothEnter ==
    /\ pc = "main" /\ ~stayMode /\ character = "default"
    /\ out' = out \o <<enterAlternateBuffer, hideCursor, clearScreen>>
    /\ term' = getTerminalSize
    /\ fig' = 1
    /\ x' = loopStart(cucumberArt, getTerminalSize)
    /\ pc' = "loop"
    /\ UNCHANGED <<argVars, sizeVars, resizes, rendered, timers,
                   exitCode, exitedBy, idleVars>>

\* one iteration of a scroll loop: the condition holds, the frame is
\* rendered and written, the timer is set and main() is suspended
ScrollTick ==
    /\ pc = "loop"
    /\ loopContinues(CurrentArt, term, x)
    /\ out' = Append(out, FrameTok(renderFrame(CurrentArt, x)))
    /\ rendered' = Append(rendered, x)
    /\ timers' = Append(timers, speed)
    /\ pc' = "sleep"
    /\ UNCHANGED <<argVars, sizeVars, resizes, term, x, fig,
                   exitCode, exitedBy, idleVars>>

\* the timer of a tick fires: the loop's update expression runs
TimerFires ==
    /\ pc = "sleep"
    /\ x' = loopAdvance(x)
    /\ pc' = "loop"
    /\ UNCHANGED <<argVars, sizeVars, resizes, out, term, fig, rendered,
                   timers, exitCode, exitedBy, idleVars>>

\* the loop condition fails.  After the first figure of animateBoth the
\* pause timer is set (index.js:232); otherwise the function goes on to
\* leave the alternate buffer.
ScrollEnd ==
    /\ pc = "loop"
    /\ ~loopContinues(CurrentArt, term, x)
    /\ IF character = "default" /\ fig = 1
         THEN /\ timers' = Append(timers, speed * PAUSE_MULTIPLIER)
              /\ pc' = "pause"
         ELSE /\ timers' = timers
              /\ pc' = "finish"
    /\ UNCHANGED <<argVars, sizeVars, resizes, out, term, x, fig, rendered,
                   exitCode, exitedBy, idleVars>>

\* the pause timer fires: the eggplant loop starts (index.js:235-243), with
\* the `term` read before the cucumber loop
PauseEnds ==
    /\ pc = "pause"
    /\ fig' = 2
    /\ x' = loopStart(eggplantArt, term)
    /\ pc' = "loop"
    /\ UNCHANGED <<argVars, sizeVars, resizes, out, term, rendered, timers,
                   exitCode, exitedBy, idleVars>>

\* index.js:193-196, 250-251; main() then returns
AnimateFinish ==
    /\ pc = "finish"
    /\ out' = out \o <<showCursor, exitAlternateBuffer>>
    /\ pc' = "returned"
    /\ UNCHANGED <<argVars, sizeVars, resizes, term, x, fig, rendered,
                   timers, exitCode, exitedBy, idleVars>>

\* the lines of renderStatic when main() passes the forward art whatever
\* the direction
staticLines_IgnoreReverse ==
    IF character = "cucumber" THEN cucumber
    ELSE IF character = "eggplant" THEN eggplant
    ELSE cucumber \o << <<>>, <<>> >> \o eggplant

\* the lines renderStatic gives to console.log (index.js:261-270), for the
\* argument main() passes (index.js:347, 354, 362)
staticLines ==
    IF character = "cucumber" THEN cucumberArt
    ELSE IF character = "eggplant" THEN eggplantArt
    ELSE cucumberArt \o << <<>>, <<>> >> \o eggplantArt

\* renderStatic: hideCursor() (index.js:259)
RenderStaticHide ==
    /\ pc = "main" /\ stayMode
    /\ out' = Append(out, hideCursor)
    /\ pc' = "static"
    /\ UNCHANGED <<argVars, sizeVars, resizes, term, x, fig, rendered,
                   timers, exitCode, exitedBy, idleVars>>

\* renderStatic: the console.log calls (index.js:261-270)
RenderStaticLines ==
    /\ pc = "static"
    /\ out' = out \o [i \in 1..Len(staticLines) |-> LineTok(staticLines[i])]
    /\ pc' = "static_show"
    /\ UNCHANGED <<argVars, sizeVars, resizes, term, x, fig, rendered,
                   timers, exitCode, exitedBy, idleVars>>

\* renderStatic: showCursor() (index.js:272); main() then returns
RenderStaticShow ==
    /\ pc = "static_show"
    /\ out' = Append(out, showCursor)
    /\ pc' = "returned"
    /\ UNCHANGED <<argVars, sizeVars, resizes, term, x, fig, rendered,
                   timers, exitCode, exitedBy, idleVars>>

\* main() has returned and nothing is pending: the process ends, status 0
ProcessExit ==
    /\ pc = "returned"
    /\ pc' = "exited"
    /\ exitCode' = 0
    /\ exitedBy' = "return"
    /\ UNCHANGED <<argVars, sizeVars, resizes, out, term, x, fig, rendered,
                   timers, idleVars>>

\* the handler's writes with the alternate buffer left unconditionally
sigintWrites_Unguarded == <<showCursor, exitAlternateBuffer>>

\* the writes of the SIGINT handler (index.js:337-340)
sigintWrites ==
    <<showCursor>> \o (IF ~stayMode THEN <<exitAlternateBuffer>> ELSE <<>>)

\* the SIGINT handler (index.js:336-342) runs: while main() awaits a timer,
\* or after main() has returned
SigintHandler ==
    /\ pc \in {"sleep", "pause", "returned"}
    /\ out' = out \o sigintWrites
    /\ pc' = "exited"
    /\ exitCode' = 0
    /\ exitedBy' = "sigint"
    /\ UNCHANGED <<argVars, sizeVars, resizes, term, x, fig, rendered,
                   timers, idleVars>>

\* the step main() is about to run throws: the promise of main() is
\* rejected and the catch callback runs (index.js:369-374; console.error
\* writes to stderr)
MainCatch ==
    /\ pc \in {"static", "static_show", "loop", "finish"}
    /\ out' = out \o <<showCursor, exitAlternateBuffer>>
    /\ pc' = "exited"
    /\ exitCode' = 1
    /\ exitedBy' = "catch"
    /\ UNCHANGED <<argVars, sizeVars, resizes, term, x, fig, rendered,
                   timers, idleVars>>

Next ==
    \/ AnimateEnter
    \/ AnimateBothEnter
    \/ ScrollTick
    \/ TimerFires
    \/ ScrollEnd
    \/ PauseEnds
    \/ AnimateFinish
    \/ RenderStaticHide
    \/ RenderStaticLines
    \/ RenderStaticShow
    \/ ProcessExit
    \/ SigintHandler
    \/ MainCatch

Spec == Init /\ [][Next]_vars

(***************************************************************************)
(* SpecFair: the process keeps running: a timer that was set fires, code   *)
(* that can run does run, and a process whose main() has returned ends.    *)
(***************************************************************************)
SpecFair == Spec /\ WF_vars(Next)

(***************************************************************************)
(* SpecResize: the same process in a terminal that is resized, at most     *)
(* MaxResizes times, while main() awaits a timer.                          *)
(***************************************************************************)
Resize ==
    /\ pc \in {"sleep", "pause"}
    /\ resizes < MaxResizes
    /\ columns' \in 1..MaxWidth
    /\ rows' \in 1..MaxHeight
    /\ <<columns', rows'>> # <<columns, rows>>
    /\ resizes' = resizes + 1
    /\ UNCHANGED <<argVars, out, pc, term, x, fig, rendered, timers,
                   exitCode, exitedBy, idleVars>>

NextResize == Next \/ Resize

SpecResize == Init /\ [][NextResize]_vars

(***************************************************************************)
(* Claims about renderFrame (checked under SpecFrame).                     *)
(***************************************************************************)
FrameWritten == framePc = "written"

\* C1: whatever the art buffer (empty, or larger than the viewport) and
\* whatever the offset, the frame renderFrame writes has exactly
\* viewport.height rows and every row has exactly viewport.width
\* characters.
C1_FrameSize ==
    FrameWritten =>
      /\ Len(frameBuffer) = getTerminalSize.height
      /\ \A r \in 1..Len(frameBuffer) :
           Len(frameBuffer[r]) = getTerminalSize.width

\* an art buffer taller and wider than the viewport, scrolled off to the left
C1_Witness ==
    /\ FrameWritten
    /\ Len(art) > rows
    /\ \E i \in 1..Len(art) : Len(art[i]) > columns
    /\ xPosition < 0

\* the character the reference placement puts at screen row r, column c
ReferenceCell(a, offset, height, r, c) ==
    LET verticalStart == IF height - Len(a) > 0
                           THEN (height - Len(a)) \div 2 ELSE 0
        i == r - verticalStart - 1
        j == c - 1 - offset
    IN  IF i >= 0 /\ i < Len(a) /\ j >= 0 /\ j < Len(a[i + 1])
          THEN a[i + 1][j + 1]
          ELSE SPACE

\* C2: the frame equals the reference placement: screen cell (r, c) holds
\* art[r - verticalStart - 1][c - 1 - offset] when that cell of the art
\* exists and a space otherwise, with verticalStart =
\* max(0, floor((height - art.height) / 2)).
C2_Placement ==
    FrameWritten =>
      /\ DOMAIN frameBuffer = 1..getTerminalSize.height
      /\ \A r \in 1..getTerminalSize.height :
           /\ DOMAIN frameBuffer[r] = 1..getTerminalSize.width
           /\ \A c \in 1..getTerminalSize.width :
                frameBuffer[r][c] =
                  ReferenceCell(art, xPosition, getTerminalSize.height, r, c)

\* art scrolled partly off the left edge: the frame starts in mid-row
C2_Witness ==
    /\ FrameWritten
    /\ xPosition < 0
    /\ Len(art) >= 1 /\ Len(art) < rows
    /\ \E r \in 1..Len(frameBuffer) :
         Len(frameBuffer[r]) >= 1 /\ frameBuffer[r][1] = Glyph(1, 1 - xPosition)

(***************************************************************************)
(* Claims about loadArt (checked under SpecLoad).                          *)
(***************************************************************************)
\* the lines with every trailing blank (empty or whitespace-only) line
\* removed and all other lines kept in place
WithoutTrailingBlank(lines) ==
    LET nonBlank == { i \in 1..Len(lines) : ~TrimIsEmpty(lines[i]) }
    IN  IF nonBlank = {} THEN <<>>
        ELSE SubSeq(lines, 1, CHOOSE i \in nonBlank : \A k \in nonBlank : k <= i)

\* C8: loadArt returns the lines of the file with all trailing blank lines
\* removed and every interior blank line kept, so the last returned line is
\* non-blank whenever the file has a non-blank line.
C8_TrailingBlankStripped ==
    loadPc = "returned" => loaded = WithoutTrailingBlank(Split(content))

(***************************************************************************)
(* Claims about the process (checked under Spec, C7 under SpecResize).     *)
(***************************************************************************)
Ops(seq) == { seq[i].op : i \in 1..Len(seq) }

CountOp(seq, op) == Cardinality({ i \in 1..Len(seq) : seq[i].op = op })

\* the terminal shows the alternate screen after the writes of seq
AltEntered(seq) ==
    \E j \in 1..Len(seq) :
        /\ seq[j].op = "enterAlt"
        /\ \A k \in (j + 1)..Len(seq) : seq[k].op # "exitAlt"

\* the cursor is hidden after the writes of seq
CursorHidden(seq) ==
    \E j \in 1..Len(seq) :
        /\ seq[j].op = "hideCursor"
        /\ \A k \in (j + 1)..Len(seq) : seq[k].op # "showCursor"

Prefix(seq, n) == SubSeq(seq, 1, n)

IsPrefix(p, seq) == Len(p) <= Len(seq) /\ p = Prefix(seq, Len(p))

\* C3: on every path to the end of the process the terminal-mode writes
\* are paired: the alternate screen is never left while it is not entered
\* and never entered twice, and at the end of the process the terminal is
\* on the normal screen with the cursor visible.
C3_ModeWritesPaired ==
    /\ \A i \in 1..Len(out) :
         /\ out[i].op = "exitAlt" => AltEntered(Prefix(out, i - 1))
         /\ out[i].op = "enterAlt" => ~AltEntered(Prefix(out, i - 1))
    /\ pc = "exited" => ~AltEntered(out) /\ ~CursorHidden(out)

\* the writes the interrupt handler owes to the terminal state it finds
RestoreWrites(seq) ==
    <<showCursor>> \o
    (IF "enterAlt" \in Ops(seq) THEN <<exitAlternateBuffer>> ELSE <<>>)

\* C4: when SIGINT is handled, in a scroll, in the pause of the dual run or
\* in stay mode, the handler shows the cursor, leaves the alternate screen
\* if and only if it had been entered, and the process ends with status 0;
\* no tick is rendered and nothing more is written after the signal.
C4_InterruptRestores ==
    /\ [][ (exitedBy = "none" /\ exitedBy' = "sigint") =>
             /\ out' = out \o RestoreWrites(out)
             /\ rendered' = rendered /\ timers' = timers
             /\ exitCode' = 0 /\ pc' = "exited" ]_vars
    /\ [][ exitedBy = "sigint" =>
             UNCHANGED <<out, rendered, timers, exitCode, pc>> ]_vars

\* interrupted in stay mode, and interrupted in the pause of the dual run
C4_WitnessStay ==
    exitedBy = "sigint" /\ stayMode /\ out[Len(out)].op = "showCursor"

C4_Witness ==
    /\ exitedBy = "sigint" /\ character = "default" /\ fig = 1
    /\ Len(timers) > 0 /\ timers[Len(timers)] = speed * PAUSE_MULTIPLIER
    /\ out[Len(out)].op = "exitAlt"

\* C5: with --endless the scroll is repeated for ever: a scroll run that
\* was given the flag never gets past its last traversal to leave the
\* alternate screen and return.
C5_EndlessNeverCompletes ==
    (endlessFlag /\ ~stayMode) =>
        pc \notin {"finish", "returned"} /\ exitedBy # "return"

\* hide, the given lines through console.log, show
StaticOutput(artLines) ==
    <<hideCursor>> \o [i \in 1..Len(artLines) |-> LineTok(artLines[i])]
    \o <<showCursor>>

SelectedArtLines ==
    IF character = "cucumber" THEN cucumberArt
    ELSE IF character = "eggplant" THEN eggplantArt
    ELSE cucumberArt \o eggplantArt

SelectedArtLinesSeparated ==
    IF character = "cucumber" THEN cucumberArt
    ELSE IF character = "eggplant" THEN eggplantArt
    ELSE cucumberArt \o << <<>>, <<>> >> \o eggplantArt

IsBlankFrame(f) ==
    \A r \in 1..Len(f) : \A c \in 1..Len(f[r]) : f[r][c] = SPACE

\* C9: in the pause of the dual run the viewport is clear: the last thing
\* written is the last frame of the first figure and it holds no art
\* character; the alternate screen was entered once and not left.
C9_ClearDuringPause ==
    pc = "pause" =>
        /\ Len(out) > 0
        /\ out[Len(out)].op = "frame"
        /\ IsBlankFrame(out[Len(out)].arg)
        /\ CountOp(out, "enterAlt") = 1
        /\ CountOp(out, "exitAlt") = 0

SingleRun == ~stayMode /\ character \in {"cucumber", "eggplant"}

FarBoundPassed(pos, w, a) == IF reverseMode THEN pos > w ELSE pos < -a

SingleScrollInvariant ==
    SingleRun =>
      LET W == columns
          A == ArtWidth(CurrentArt)
          n == Len(rendered)
      IN  /\ n >= 1 => rendered[1] = (IF reverseMode THEN -A ELSE W)
          /\ \A i \in 2..n : rendered[i] = loopAdvance(rendered[i - 1])
          /\ \A i \in 1..n : rendered[i] >= -A /\ rendered[i] <= W
          /\ CountOp(out, "frame") = n
          /\ Len(timers) = n
          /\ \A i \in 1..n : timers[i] = speed
          /\ n <= (W + A) \div ANIMATION_STEP + 1
          /\ (pc \in {"finish", "returned"} \/ exitedBy = "return") =>
               /\ n = (W + A) \div ANIMATION_STEP + 1
               /\ FarBoundPassed(loopAdvance(rendered[n]), W, A)
               /\ x = loopAdvance(rendered[n])

\* C10: a single-figure scroll in a viewport of fixed width W over art of
\* width A renders its first frame at offset W (leftward) or -A
\* (rightward), moves by 2 columns per tick toward the far bound, renders
\* only offsets in [-A, W], writes one frame and sets one timer of `speed`
\* per tick, and ends: after floor((W + A) / 2) + 1 ticks, when the next
\* offset has passed the far bound, unless it is interrupted or fails
\* before.
C10_SingleScroll ==
    /\ []SingleScrollInvariant
    /\ (SingleRun /\ pc = "main") ~> (pc = "exited")

\* a rightward single-figure scroll has run to its end
C10_Witness ==
    /\ SingleRun /\ reverseMode /\ exitedBy = "return"
    /\ Len(rendered) >= 3

\* C7: the viewport is never cached across ticks: every scroll loop starts
\* a leftward run at the width the terminal has at that moment, and decides
\* at every tick whether to go on by the width the terminal has at that
\* tick.
C7_ViewportNotCached ==
    /\ [][ (pc = "loop" /\ pc' \in {"sleep", "pause", "finish"}) =>
             ((pc' = "sleep") <=>
                loopContinues(CurrentArt, getTerminalSize, x)) ]_vars
    /\ [][ (pc \in {"main", "pause"} /\ pc' = "loop") =>
             x' = loopStart(CurrentArt', getTerminalSize) ]_vars

====
